---- MODULE Spec2Model ----
(***************************************************************************)
(* A model of runner, the Rust snippet runner: the snippet transformer     *)
(* (massage_snippet), the alias file, the cache directory layout           *)
(* (get_prelude), the static cache rebuild (create_static / build_static)  *)
(* and the compile orchestration (compile_crate).                          *)
(*                                                                         *)
(* Text is modelled as a sequence of lexemes.  A lexeme is a short string  *)
(* that the program never looks inside; "\n" is the line terminator and    *)
(* the members of WS are runs of white space.  A line is a sequence of     *)
(* lexemes without "\n".                                                   *)
(***************************************************************************)
EXTENDS Integers, Sequences, FiniteSets, TLC

VARIABLES
    pc,               \* position of the invocation being modelled
    code,             \* the snippet text read from the program argument
    arg_extern,       \* -x/--extern: requested dependency names
    arg_wild,         \* -X/--wild: wildcard-import names
    arg_prepend,      \* -p/--prepend: statement put in the body
    arg_no_prelude,   \* -N/--no-prelude
    massaged,         \* result of massage_snippet on the snippet
    remassaged,       \* result of massage_snippet on the body it generated
    alias_file,       \* the file <runner>/alias
    aliases_arg,      \* add_aliases: the list given to the last call
    alias_before,     \* add_aliases: the file as it was before the last call
    alias_map,        \* get_aliases: the map the last call returned
    impl,             \* which of the two sources runs: "main.rs" or "cache.rs"
    args,             \* the cache-management arguments of the invocation
    static_cache,     \* whether <runner>/static-cache exists
    manifest,         \* the text of static-cache/Cargo.toml
    tmpfile,          \* the backup <tmp>/Cargo.toml
    meta_file,        \* the metadata cache file of the static cache
    m,                \* build_static: the Meta being filled
    caller,           \* who called build_static: "add" or "build"
    events,           \* what the invocation has done so far, in order
    failures,         \* the steps of build_static that failed, with the caller
    cf,               \* how the cache operations ended
    manifest_pre,     \* the manifest as it was before create_static edited it
    meta_pre,         \* the metadata cache file when build_static was entered
    runs,             \* the number of invocations started
    home,             \* the runner directory: "absent" or "dir"
    prelude_file,     \* the file <runner>/prelude
    bin_dir,          \* <runner>/bin: absent, a directory with its entries, or a file
    dy_cache_dir,     \* <runner>/dy-cache: absent or a directory with its entries
    prelude_ret,      \* get_prelude: what the last call returned
    fs_before,        \* get_prelude: the layout as it was before the last call
    ret_before,       \* get_prelude: what the call before the last returned
    calls,            \* get_prelude: the number of calls
    state,            \* compile_crate: the State (build_static, optimize, exe)
    cargs,            \* compile_crate: the arguments read from the command line
    crate_name,       \* compile_crate: the crate name
    deduced,          \* compile_crate: the extern_crates it is given
    platform,         \* the platform, for DLL_PREFIX and DLL_SUFFIX
    compiled,         \* compile_crate: how the call ended
    later,            \* compile_crate: a later call that links against the library built
    cb_input,         \* cargo_build: the lines the build tool writes to its standard output
    cb_stream,        \* cargo_build: the lines not read yet
    cb_out,           \* cargo_build: the accumulated text (out)
    cb_console,       \* cargo_build: the lines printed to the console
    cb_success,       \* cargo_build: whether the build tool exited successfully
    cb_ret,           \* cargo_build: the value returned
    margs,            \* main: the flags --run and --compile-only
    program_exists,   \* main: whether the executable exists when main starts
    main_events       \* main: the compilations, copies and runs of the program, in order

snippet_vars == <<code, arg_extern, arg_wild, arg_prepend, arg_no_prelude,
                  massaged, remassaged>>
alias_vars == <<alias_file, aliases_arg, alias_before, alias_map>>

cache_vars == <<impl, args, static_cache, manifest, tmpfile, meta_file, m, caller,
                events, failures, cf, manifest_pre, meta_pre, runs>>

layout_vars == <<home, prelude_file, bin_dir, dy_cache_dir, prelude_ret, fs_before,
                 ret_before, calls>>
compile_vars == <<state, cargs, crate_name, deduced, platform, compiled, later>>
stream_vars == <<cb_input, cb_stream, cb_out, cb_console, cb_success, cb_ret>>
main_vars == <<margs, program_exists, main_events>>
other_vars == <<stream_vars, main_vars>>

vars == <<pc, snippet_vars, alias_vars, cache_vars, layout_vars, compile_vars, other_vars>>

\* a file that does not exist, and a file holding a text
NoFile == [exists |-> FALSE, text |-> <<>>]
File(txt) == [exists |-> TRUE, text |-> txt]

----------------------------------------------------------------------------
(* Text helpers: the std::str operations the code uses.                     *)

NL == "\n"
INDENT == "    "
WS == {" ", INDENT}

\* the bound on the number of lines of a snippet
MaxLines == 3

RECURSIVE Concat(_)
Concat(ss) == IF ss = <<>> THEN <<>> ELSE Head(ss) \o Concat(Tail(ss))

\* a text made of the given lines, each terminated by a newline
RECURSIVE Unlines(_)
Unlines(ls) == IF ls = <<>> THEN <<>> ELSE Head(ls) \o <<NL>> \o Unlines(Tail(ls))

\* str::lines(): split at newlines; a final newline opens no further line
Lines(txt) ==
    LET nl == {i \in DOMAIN txt : txt[i] = NL}
        starts == {s \in {1} \cup {i + 1 : i \in nl} : s <= Len(txt)}
        Start(k) == CHOOSE s \in starts : Cardinality({t \in starts : t < s}) = k - 1
        End(s) == IF \E i \in nl : i >= s
                  THEN (CHOOSE i \in nl : i >= s /\ \A j \in nl : j >= s => i <= j) - 1
                  ELSE Len(txt)
    IN [k \in 1..Cardinality(starts) |-> SubSeq(txt, Start(k), End(Start(k)))]

\* str::trim_left()
RECURSIVE trim_left(_)
trim_left(line) ==
    IF line # <<>> /\ Head(line) \in WS THEN trim_left(Tail(line)) ELSE line

\* str::trim_right()
RECURSIVE trim_right(_)
trim_right(line) ==
    IF line # <<>> /\ line[Len(line)] \in WS
    THEN trim_right(SubSeq(line, 1, Len(line) - 1)) ELSE line

trim(line) == trim_right(trim_left(line))

\* str::starts_with()
starts_with(line, pat) ==
    Len(line) >= Len(pat) /\ SubSeq(line, 1, Len(pat)) = pat

\* str::find(): the first position at which pat occurs in txt, 0 if none
find(txt, pat) ==
    LET hits == {i \in 1..(Len(txt) - Len(pat) + 1) :
                    SubSeq(txt, i, i + Len(pat) - 1) = pat}
    IN IF hits = {} THEN 0 ELSE CHOOSE i \in hits : \A j \in hits : i <= j

None == [some |-> FALSE, val |-> <<>>]
Some(v) == [some |-> TRUE, val |-> v]

\* strutil::after: what follows the first occurrence of target in txt
after(txt, target) ==
    LET idx == find(txt, target)
    IN IF idx = 0 THEN None
       ELSE Some(SubSeq(txt, idx + Len(target), Len(txt)))

WordEnd == {";"} \cup WS

\* strutil::word_after: the word that follows target in txt
word_after(txt, target) ==
    LET a == after(txt, target)
        rest == trim_left(a.val)
    IN IF ~a.some \/ rest = <<>> \/ Head(rest) \in WordEnd THEN None
       ELSE Some(Head(rest))

----------------------------------------------------------------------------
(* The alias file: add_aliases / get_aliases.                               *)

\* StringEx::split_at_delim: the text before and after the first delimiter
split_at_delim(s, delim) ==
    LET idx == find(s, <<delim>>)
    IN IF idx = 0 THEN None
       ELSE Some(<<SubSeq(s, 1, idx - 1), SubSeq(s, idx + 1, Len(s))>>)

\* MaybeTrim::trim: both halves trimmed
maybe_trim(p) == IF p.some THEN Some(<<trim(p.val[1]), trim(p.val[2])>>) ELSE None

EmptyMap == [k \in {} |-> <<>>]

\* ToMap::to_map: HashMap insertion in order, a later pair replaces an earlier
RECURSIVE to_map(_)
to_map(pairs) ==
    IF pairs = <<>> THEN EmptyMap
    ELSE LET n == Len(pairs)
             mp == to_map(SubSeq(pairs, 1, n - 1))
             kv == pairs[n]
         IN [k \in (DOMAIN mp) \cup {kv[1]} |-> IF k = kv[1] THEN kv[2] ELSE mp[k]]

RECURSIVE filter_map_pairs(_)
filter_map_pairs(ls) ==
    IF ls = <<>> THEN <<>>
    ELSE LET p == maybe_trim(split_at_delim(Head(ls), "="))
         IN (IF p.some THEN <<p.val>> ELSE <<>>) \o filter_map_pairs(Tail(ls))

\* get_aliases applied to a given content of the alias file
get_aliases_of(file) ==
    IF ~file.exists THEN EmptyMap ELSE to_map(filter_map_pairs(Lines(file.text)))

get_aliases == get_aliases_of(alias_file)

\* what add_aliases writes: each entry followed by a newline
WriteAliases(aliases) == Unlines(aliases)

\* add_aliases opening the file with File::create whether it exists or not
add_aliases_file_Create(file, aliases) ==
    IF aliases = <<>> THEN file ELSE File(WriteAliases(aliases))

\* the alias file after add_aliases(aliases), given the file before
add_aliases_file(file, aliases) ==
    IF aliases = <<>> THEN file
    ELSE IF file.exists THEN File(file.text \o WriteAliases(aliases))
    ELSE File(WriteAliases(aliases))

----------------------------------------------------------------------------
(* The snippet transformer: massage_snippet.                                *)

SHEBANG == <<"#!/">>
MACRO_USE == <<"#[macro_use">>
EXTERN == <<"extern ">>
USE_DECL == <<"use ">>
EXTERN_CRATE == <<"extern ", "crate ">>
CRATE_ATTR == <<"#![">>

RUN_HEADER == "fn run() -> std::result::Result<(),Box<std::error::Error>> {"
RUN_OK == "Ok(())"

\* the names the model uses, in the order String's Ord gives them
NameOrder == <<"a", "b", "c", "d", "libc", "z">>
Rank(n) == CHOOSE i \in 1..Len(NameOrder) : NameOrder[i] = n

\* Vec::sort() on names
RECURSIVE Insert(_, _)
Insert(n, s) ==
    IF s = <<>> THEN <<n>>
    ELSE IF Rank(n) < Rank(Head(s)) THEN <<n>> \o s
    ELSE <<Head(s)>> \o Insert(n, Tail(s))

RECURSIVE sort(_)
sort(s) == IF s = <<>> THEN <<>> ELSE Insert(s[Len(s)], sort(SubSeq(s, 1, Len(s) - 1)))

\* Vec::dedup(): consecutive repeats removed
RECURSIVE dedup(_)
dedup(s) ==
    IF Len(s) <= 1 THEN s
    ELSE IF s[1] = s[2] THEN dedup(Tail(s))
    ELSE <<s[1]>> \o dedup(Tail(s))

indent_line(line) == <<INDENT>> \o line \o <<NL>>

\* the import declaration of one requested name
ImportDecl(aliases, c) ==
    IF <<c>> \in DOMAIN aliases
    THEN <<"extern ", "crate ">> \o aliases[<<c>>] \o <<" ", "as ", c, ";", NL>>
    ELSE <<"extern ", "crate ", c, ";", NL>>

WildDecl(c) == <<"use ", c, "::*", ";", NL>>

RECURSIVE ImportDecls(_, _)
ImportDecls(aliases, externs) ==
    IF externs = <<>> THEN <<>>
    ELSE ImportDecl(aliases, Head(externs)) \o ImportDecls(aliases, Tail(externs))

RECURSIVE WildDecls(_)
WildDecls(wilds) ==
    IF wilds = <<>> THEN <<>> ELSE WildDecl(Head(wilds)) \o WildDecls(Tail(wilds))

\* lines.map(indent_line), concatenated
RECURSIVE IndentLines(_)
\* the rest of the lines indented after their own indentation was removed
IndentLines_Trimmed(ls) ==
    IF ls = <<>> THEN <<>>
    ELSE indent_line(trim_left(Head(ls))) \o IndentLines(Tail(ls))
IndentLines(ls) ==
    IF ls = <<>> THEN <<>> ELSE indent_line(Head(ls)) \o IndentLines(Tail(ls))

\* the declarations the requested names add to the preamble
RequestedDecls(aliases, externs, wilds) ==
    IF Len(externs) > 0
    THEN ImportDecls(aliases, externs) \o WildDecls(wilds)
    ELSE <<>>

\* the header scan: the loop over lines.by_ref(); st.next is the first line
\* the loop did not consume
RECURSIVE ScanHeader(_, _, _, _)
ScanHeader(ls, i, first, st) ==
    IF i > Len(ls) THEN [st EXCEPT !.next = i]
    ELSE
      LET line == trim_left(ls[i])
          mu == after(line, MACRO_USE)
      IN IF first /\ starts_with(line, SHEBANG)
           THEN ScanHeader(ls, i + 1, TRUE, st)
         ELSE IF mu.some
           THEN LET w == word_after(mu.val, EXTERN_CRATE)
                IN ScanHeader(ls, i + 1, FALSE,
                     [st EXCEPT !.found = IF w.some THEN Append(@, w.val) ELSE @,
                                !.prefix = @ \o line \o <<NL>>,
                                !.hoisted = Append(@, i)])
         ELSE IF starts_with(line, EXTERN) \/ starts_with(line, USE_DECL)
           THEN LET w == word_after(line, EXTERN_CRATE)
                IN ScanHeader(ls, i + 1, FALSE,
                     [st EXCEPT !.found = IF w.some THEN Append(@, w.val) ELSE @,
                                !.prefix = @ \o line \o <<NL>>,
                                !.hoisted = Append(@, i)])
         ELSE IF starts_with(line, CRATE_ATTR)
           THEN ScanHeader(ls, i + 1, FALSE,
                     [st EXCEPT !.crate_begin = @ \o line \o <<NL>>,
                                !.hoisted = Append(@, i)])
         ELSE IF Len(line) > 0
           THEN [st EXCEPT !.body = @ \o indent_line(line), !.next = i + 1]
         ELSE ScanHeader(ls, i + 1, FALSE, st)

\* the deduced externs with the dedup() call left out
DeducedExterns_NoDedup(found, externs) == sort(found \o externs)

\* deduced_externs.extend(extern_crates); sort(); dedup()
DeducedExterns(found, externs) == dedup(sort(found \o externs))

\* the program text assembled by the final format!
Assemble(crate_begin, prefix, body) ==
    crate_begin \o <<NL>> \o prefix \o <<NL, NL, RUN_HEADER, NL>>
    \o body \o <<INDENT, RUN_OK, NL, "}", NL,
                 "fn main() {", NL,
                 INDENT, "if let Err(e) = run() {", NL,
                 INDENT, INDENT, "println!(\"error: {:?}\",e);", NL,
                 INDENT, "}", NL,
                 "}", NL>>

\* massage_snippet; hoisted lists the input lines (by position) that went to
\* the preamble or the crate-attribute segment
massage_snippet(code_, prelude_, externs, wilds, body_prelude_) ==
    LET aliases == get_aliases
        ls == Lines(code_)
        st0 == [prefix |-> prelude_ \o RequestedDecls(aliases, externs, wilds),
                crate_begin |-> <<>>,
                body |-> body_prelude_,
                found |-> <<>>,
                hoisted |-> <<>>,
                next |-> 1]
        st == ScanHeader(ls, 1, TRUE, st0)
        rest == [k \in 1..(Len(ls) - st.next + 1) |-> ls[st.next + k - 1]]
        body_ == st.body \o IndentLines(rest)
    IN [crate_begin |-> st.crate_begin,
        prefix |-> st.prefix,
        body |-> body_,
        found |-> st.found,
        hoisted |-> st.hoisted,
        deduced_externs |-> DeducedExterns(st.found, externs),
        massaged_code |-> Assemble(st.crate_begin, st.prefix, body_)]

\* the default prelude (PRELUDE), as main.rs writes it on first use
PRELUDE ==
    <<NL>> \o Unlines(<<
        <<"#![", "allow(unused_imports)", "]">>,
        <<"#![", "allow(unused_variables)", "]">>,
        <<"#![", "allow(dead_code)", "]">>,
        <<"#![", "allow(unused_macros)", "]">>,
        <<"use ", "std::fs", ";">>,
        <<"use ", "std::fs::File", ";">>,
        <<"use ", "std::io", ";">>,
        <<"use ", "std::io::prelude::*", ";">>,
        <<"use ", "std::env", ";">>,
        <<"use ", "std::path::{PathBuf,Path}", ";">>,
        <<"use ", "std::collections::HashMap", ";">>,
        <<>>,
        <<"macro_rules! debug {">>,
        <<INDENT, "($x:expr) => {">>,
        <<INDENT, INDENT, "println!(\"{} = {:?}\",stringify!($x),$x);">>,
        <<INDENT, "}">>,
        <<"}">> >>)

\* main, lines 307-322: the arguments massage_snippet is called with
MainExternCrates == arg_extern \o arg_wild
MainExtra == IF arg_prepend # <<>> THEN arg_prepend \o <<";">> ELSE <<>>
MaybePrelude == IF arg_no_prelude THEN <<>> ELSE PRELUDE

----------------------------------------------------------------------------
(* The static cache: the manifest, the metadata cache and the build tool.   *)

\* the Cargo.toml that `cargo new --bin static-cache` leaves
ManifestBase ==
    Unlines(<< <<"[package]">>, <<"name = \"static-cache\"">>, <<"[dependencies]">> >>)

KITCHEN_SINK_MAIN ==
    << <<"time">>, <<"regex">>, <<"toml">>, <<"serde_json">>, <<"json">>,
       <<"walkdir">>, <<"simple-error">>, <<"error-chain">>, <<"nom">>,
       <<"rayon">>, <<"pipeliner">>, <<"reqwest">>, <<"typed-arena">> >>
KITCHEN_SINK_CACHE ==
    << <<"chrono">>, <<"regex">>, <<"serde_json">>, <<"serde_yaml">> >>

\* kitchen_sink (main.rs) and the head of create_static (cache.rs)
kitchen_sink(crates) ==
    IF Len(crates) = 1 /\ crates[1] = <<"kitchen-sink">>
    THEN (IF impl = "main.rs" THEN KITCHEN_SINK_MAIN ELSE KITCHEN_SINK_CACHE)
    ELSE crates

\* the local Cargo projects of the environment: directory, crate name, path
LocalProjects == (<<"./p">> :> [name |-> "p", path |-> "/abs/p"])

\* maybe_cargo_dir
maybe_cargo_dir(c) == IF c \in DOMAIN LocalProjects THEN Some(LocalProjects[c]) ELSE None

\* Meta::new
NewMeta == [n \in {} |-> [debug |-> <<>>, release |-> <<>>]]

\* a metadata cache file that does not exist, and one holding a Meta
NoMetaFile == [exists |-> FALSE, crates |-> NewMeta]
MetaFile(meta) == [exists |-> TRUE, crates |-> meta]

\* Meta::is_crate_present
is_crate_present(meta, name) == name \in DOMAIN meta

\* create_static: check_crate, with mdata the metadata file read by get_metadata
\* or none when the static cache was just created
check_crate(mdata, name) == IF mdata.exists THEN is_crate_present(mdata.crates, name) ELSE FALSE

\* create_static (cache.rs): the (name, version or path, semver) of one crate
\* argument, none if the crate is in the cache already
crate_vs(mdata, c) ==
    LET sp == split_at_delim(c, "=")
        dir == maybe_cargo_dir(c)
    IN IF sp.some
         THEN Some([name |-> sp.val[1], vs |-> sp.val[2], semver |-> TRUE])
       ELSE IF dir.some
         THEN (IF check_crate(mdata, dir.val.name) THEN None
               ELSE Some([name |-> <<dir.val.name>>, vs |-> <<dir.val.path>>,
                          semver |-> FALSE]))
       ELSE IF check_crate(mdata, c[1]) THEN None
       ELSE Some([name |-> c, vs |-> <<"*">>, semver |-> TRUE])

RECURSIVE crates_vs(_, _)
crates_vs(mdata, crates) ==
    IF crates = <<>> THEN <<>>
    ELSE LET e == crate_vs(mdata, Head(crates))
         IN (IF e.some THEN <<e.val>> ELSE <<>>) \o crates_vs(mdata, Tail(crates))

\* create_static (cache.rs): the line written for one entry of crates_vs
ManifestLineCache(e) ==
    IF e.semver THEN e.name \o <<"=", "\"">> \o e.vs \o <<"\"", NL>>
    ELSE e.name \o <<"=", "{path=\"">> \o e.vs \o <<"\"}", NL>>

\* create_static_cache (main.rs): the line written for one crate argument
ManifestLineMain(c) ==
    IF find(c, <<"=">>) = 0 THEN c \o <<"=", "\"", "*", "\"", NL>> ELSE c \o <<NL>>

RECURSIVE AppendedCache(_)
AppendedCache(es) ==
    IF es = <<>> THEN <<>> ELSE ManifestLineCache(Head(es)) \o AppendedCache(Tail(es))

RECURSIVE AppendedMain(_)
AppendedMain(cs) ==
    IF cs = <<>> THEN <<>> ELSE ManifestLineMain(Head(cs)) \o AppendedMain(Tail(cs))

\* the dependencies a manifest declares: the first word of each line after
\* the [dependencies] header
DepNames(text) ==
    LET ls == Lines(text)
        hdr == CHOOSE i \in DOMAIN ls : ls[i] = <<"[dependencies]">>
    IN {ls[i][1] : i \in {j \in DOMAIN ls : j > hdr /\ ls[j] # <<>>}}

\* the artifact file the build tool reports for a dependency
ArtifactName(n, release) == <<"lib", n, "-", IF release THEN "rhash" ELSE "dhash", ".rlib">>

\* the structured output of a successful cargo build of the manifest
CargoOutput(text, release) == [n \in DepNames(text) |-> ArtifactName(n, release)]

\* Meta::debug and Meta::release: the artifacts of one profile recorded
MetaDebug(meta, out) ==
    [n \in (DOMAIN meta) \cup (DOMAIN out) |->
        [debug |-> IF n \in DOMAIN out THEN out[n] ELSE meta[n].debug,
         release |-> IF n \in DOMAIN meta THEN meta[n].release ELSE <<>>]]
MetaRelease(meta, out) ==
    [n \in (DOMAIN meta) \cup (DOMAIN out) |->
        [debug |-> IF n \in DOMAIN meta THEN meta[n].debug ELSE <<>>,
         release |-> IF n \in DOMAIN out THEN out[n] ELSE meta[n].release]]

\* the arguments of an invocation that manages no cache
NoArgs == [crates |-> <<>>, create |-> FALSE, op |-> "none", program |-> FALSE]

CacheIdle ==
    /\ impl = "main.rs"
    /\ args = NoArgs
    /\ static_cache = FALSE
    /\ manifest = <<>>
    /\ tmpfile = NoFile
    /\ meta_file = NoMetaFile
    /\ m = NewMeta
    /\ caller = "none"
    /\ events = <<>>
    /\ failures = <<>>
    /\ cf = "none"
    /\ manifest_pre = <<>>
    /\ meta_pre = NoMetaFile
    /\ runs = 0

AliasIdle ==
    /\ alias_file = NoFile
    /\ aliases_arg = <<>>
    /\ alias_before = NoFile
    /\ alias_map = EmptyMap

----------------------------------------------------------------------------
(* The cache directory layout: get_prelude.                                 *)

\* a directory entry that does not exist, a directory with its entries, and
\* something that is there but is no directory
NoDir == [kind |-> "absent", entries |-> {}]
Dir(es) == [kind |-> "dir", entries |-> es]
NotADir == [kind |-> "file", entries |-> {}]

\* the prelude as the user may have edited it
EditedPrelude == PRELUDE \o Unlines(<< <<"use ", "std::thread", ";">> >>)

\* get_prelude did not return: or_die ended the process
Died == [ok |-> FALSE, text |-> <<>>]
Returned(txt) == [ok |-> TRUE, text |-> txt]

\* the layout as one value
Layout(h, p, b, d) == [home |-> h, prelude |-> p, bin |-> b, dy_cache |-> d]

\* get_prelude: the layout it leaves and what it returns
get_prelude(fs) ==
    LET pristine == fs.home # "dir"
        fs1 == IF pristine
               THEN [fs EXCEPT !.home = "dir", !.prelude = File(PRELUDE),
                               !.dy_cache = Dir({})]
               ELSE fs
    IN IF pristine \/ fs1.bin.kind # "dir"
       THEN (IF fs1.bin.kind = "absent"
             THEN [fs |-> [fs1 EXCEPT !.bin = Dir({})],
                   ret |-> IF fs1.prelude.exists THEN Returned(fs1.prelude.text) ELSE Died]
             ELSE [fs |-> fs1, ret |-> Died])
       ELSE [fs |-> fs1,
             ret |-> IF fs1.prelude.exists THEN Returned(fs1.prelude.text) ELSE Died]

LayoutIdle ==
    /\ home = "absent"
    /\ prelude_file = NoFile
    /\ bin_dir = NoDir
    /\ dy_cache_dir = NoDir
    /\ prelude_ret = Died
    /\ fs_before = Layout("absent", NoFile, NoDir, NoDir)
    /\ ret_before = Died
    /\ calls = 0

----------------------------------------------------------------------------
(* The compile orchestrator: compile_crate.  A command-line argument is a   *)
(* sequence of lexemes, a path the lexemes of its components.               *)

\* State::exe and State::dll
StateExe(build_static, optimize) ==
    [build_static |-> build_static, optimize |-> optimize, exe |-> TRUE]
StateDll(optimize) == [build_static |-> FALSE, optimize |-> optimize, exe |-> FALSE]

\* std::env::consts::DLL_PREFIX and DLL_SUFFIX of the platform
DLL_PREFIX == IF platform = "windows" THEN "" ELSE "lib"
DLL_SUFFIX == IF platform = "windows" THEN ".dll"
              ELSE IF platform = "macos" THEN ".dylib" ELSE ".so"

STATIC_CACHE == "static-cache/"
DYNAMIC_CACHE == "dy-cache/"
runner_directory == <<".cargo/", ".runner/">>

\* get_cache with the debug directory for every static build
get_cache_Debug(st) ==
    IF st.build_static
    THEN runner_directory \o <<STATIC_CACHE, "target/", "debug/", "deps/">>
    ELSE runner_directory \o <<DYNAMIC_CACHE>>
\* get_cache: the directory of the artifacts for the state
get_cache(st) ==
    IF st.build_static
    THEN runner_directory \o <<STATIC_CACHE, "target/", IF st.optimize THEN "release/" ELSE "debug/",
                               "deps/">>
    ELSE runner_directory \o <<DYNAMIC_CACHE>>

\* the characters of a crate name, as far as the program looks inside it
Chars(c) ==
    CASE c = "my-crate" -> <<"my", "-", "crate">>
      [] c = "my_crate" -> <<"my", "_", "crate">>
      [] OTHER -> <<c>>

\* crate_utils::proper_crate_name: hyphens become underscores
proper_crate_name(name) == [i \in DOMAIN name |-> IF name[i] = "-" THEN "_" ELSE name[i]]

\* Meta::get_full_crate_name: the artifact recorded for the name and profile
get_full_crate_name(meta, name, debug) ==
    IF name \notin DOMAIN meta THEN None
    ELSE LET file == IF debug THEN meta[name].debug ELSE meta[name].release
         IN IF file = <<>> THEN None ELSE Some(file)

\* how a call of compile_crate ends: the compiler invoked with argv, or the
\* process ended with an error before that
NotCompiled == [outcome |-> "none", error |-> <<>>, argv |-> <<>>]
Invoked(argv) == [outcome |-> "invoked", error |-> <<>>, argv |-> argv]
DiedWith(error) == [outcome |-> "died", error |-> error, argv |-> <<>>]

\* the crates without the sort and the dedup
AllExterns_Unsorted(a, externs) ==
    externs \o a.extern \o (IF a.libc THEN <<"libc">> ELSE <<>>)
\* compile_crate: the crates to link explicitly
AllExterns(a, externs) ==
    dedup(sort(externs \o a.extern)) \o (IF a.libc THEN <<"libc">> ELSE <<>>)

\* compile_crate: the cfg values, with the features
RECURSIVE FeatureCfgs(_)
FeatureCfgs(fs) ==
    IF fs = <<>> THEN <<>>
    ELSE << <<"feature=\"", Head(fs), "\"">> >> \o FeatureCfgs(Tail(fs))

RECURSIVE CfgFlags(_)
CfgFlags(cfg) ==
    IF cfg = <<>> THEN <<>> ELSE << <<"--cfg">>, Head(cfg) >> \o CfgFlags(Tail(cfg))

\* the flags chosen by optimize alone
BuilderFlags_ByOptimize(a, st, name, program) ==
    << IF st.optimize THEN <<"-O">> ELSE <<"-g">>, <<"-L">>, get_cache(st) >>
    \o (IF ~st.exe
        THEN << <<"--crate-type">>, <<"dylib">>, <<"--out-dir">>, get_cache(st),
                <<"--crate-name">>, proper_crate_name(name) >>
        ELSE << <<"-o">>, program >>)
\* compile_crate: the flags before the extern references
BuilderFlags(a, st, name, program) ==
    LET cache == get_cache(st)
    IN (IF ~st.build_static
        THEN << <<"-C">>, <<"prefer-dynamic">>, <<"-C">>, <<"debuginfo=0">> >>
             \o (IF a.link.some THEN << <<"-L">>, a.link.val >> ELSE <<>>)
        ELSE << IF st.optimize THEN <<"-O">> ELSE <<"-g">> >>
             \o (IF st.optimize THEN << <<"-C">>, <<"debuginfo=0">> >> ELSE <<>>))
       \o << <<"-L">>, cache >>
       \o (IF ~st.exe
           THEN << <<"--crate-type">>, <<"dylib">>, <<"--out-dir">>, cache,
                   <<"--crate-name">>, proper_crate_name(name) >>
           ELSE << <<"-o">>, program >>)
       \o CfgFlags(a.cfg \o FeatureCfgs(a.features))

\* compile_crate: the (file name, crate) pairs, or the crate that ended the
\* process; the file names of a static build are those of the metadata
\* get_metadata: the metadata of the static cache; none where it quits with
\* NoStaticCache because the cache was never built
NoStaticCache == <<"please build the static cache">>
get_metadata(mf) == IF mf.exists THEN Some(mf.crates) ELSE None

RECURSIVE StaticPairs(_, _, _)
StaticPairs(meta, cs, debug) ==
    IF cs = <<>> THEN [ok |-> TRUE, pairs |-> <<>>, error |-> <<>>]
    ELSE LET full == get_full_crate_name(meta, Head(cs), debug)
             rest == StaticPairs(meta, Tail(cs), debug)
         IN CASE ~full.some ->
                    [ok |-> FALSE, pairs |-> <<>>, error |-> <<"no such crate '", Head(cs)>>]
              [] full.some /\ ~rest.ok -> rest
              [] OTHER -> [rest EXCEPT !.pairs = << <<full.val, Head(cs)>> >> \o @]

ResolveExterns_Fallback(st, cs, mf) ==
    [ok |-> TRUE, error |-> <<>>,
     pairs |-> [i \in DOMAIN cs |->
        LET full == IF st.build_static /\ mf.exists
                    THEN get_full_crate_name(mf.crates, cs[i], ~st.optimize) ELSE None
        IN << IF full.some THEN full.val
              ELSE <<DLL_PREFIX>> \o Chars(cs[i]) \o <<DLL_SUFFIX>>, cs[i] >>]]
ResolveExterns(st, cs, mf) ==
    IF st.build_static /\ Len(cs) > 0
    THEN (IF get_metadata(mf).some
          THEN StaticPairs(get_metadata(mf).val, cs, ~st.optimize)
          ELSE [ok |-> FALSE, pairs |-> <<>>, error |-> NoStaticCache])
    ELSE [ok |-> TRUE, error |-> <<>>,
          pairs |-> [i \in DOMAIN cs |->
                       << <<DLL_PREFIX>> \o Chars(cs[i]) \o <<DLL_SUFFIX>>, cs[i] >>]]

\* compile_crate: one --extern reference for each pair
RECURSIVE ExternFlags(_, _)
\* the references without the directory of the cache
ExternFlags_NoDir(cache, pairs) ==
    IF pairs = <<>> THEN <<>>
    ELSE << <<"--extern">>, Chars(Head(pairs)[2]) \o <<"=">> \o Head(pairs)[1] >>
         \o ExternFlags(cache, Tail(pairs))
ExternFlags(cache, pairs) ==
    IF pairs = <<>> THEN <<>>
    ELSE << <<"--extern">>, Chars(Head(pairs)[2]) \o <<"=">> \o cache \o Head(pairs)[1] >>
         \o ExternFlags(cache, Tail(pairs))

\* compile_crate, up to the start of the compiler
compile_crate(a, st, name, crate_path, program, externs, mf) ==
    LET extern_crates == AllExterns(a, externs)
        resolved == ResolveExterns(st, extern_crates, mf)
    IN IF ~resolved.ok THEN DiedWith(resolved.error)
       ELSE Invoked(BuilderFlags(a, st, name, program)
                    \o ExternFlags(get_cache(st), resolved.pairs)
                    \o <<crate_path>>)

\* no later call
NotLinked == [dep |-> "", result |-> NotCompiled]

\* the arguments of a call without --extern, --libc, --cfg, --features, --link
PlainArgs == [extern |-> <<>>, libc |-> FALSE, cfg |-> <<>>, features |-> <<>>, link |-> None]

CompileIdle ==
    /\ state = StateExe(FALSE, FALSE)
    /\ cargs = PlainArgs
    /\ crate_name = <<>>
    /\ deduced = <<>>
    /\ platform = "linux"
    /\ compiled = NotCompiled
    /\ later = NotLinked

----------------------------------------------------------------------------
(* The build tool's output stream (cargo_build) and the last part of main.  *)

\* a line read from the build tool's standard output, and a read that failed
\* (Result::Err of BufRead::lines)
OkLine(txt) == [ok |-> TRUE, text |-> txt]
ErrLine == [ok |-> FALSE, text |-> <<>>]

\* line.starts_with('{')
starts_with_brace(line) == Len(line) > 0 /\ line[1] = "{"

\* the flags of an invocation that runs no program
NoMainArgs == [run |-> FALSE, compile_only |-> FALSE]

StreamIdle ==
    /\ cb_input = <<>>
    /\ cb_stream = <<>>
    /\ cb_out = <<>>
    /\ cb_console = <<>>
    /\ cb_success = FALSE
    /\ cb_ret = None

MainIdle ==
    /\ margs = NoMainArgs
    /\ program_exists = FALSE
    /\ main_events = <<>>

OtherIdle == StreamIdle /\ MainIdle

----------------------------------------------------------------------------
(* Inputs of the snippet transformer.                                       *)

ShebangLine == <<"#!/", "bin/sh">>
AttrLine == <<"#![", "feature(x)", "]">>
UseLine == <<"use ", "b", ";">>
ExternLine == <<" ", "extern ", "crate ", "a", ";">>
MacroUseLine == <<"#[macro_use", "]", " ", "extern ", "crate ", "d", ";">>
BodyLine == <<"let ", "x", ";">>
EmptyLine == <<>>

LineVocab ==
    {ShebangLine, AttrLine, UseLine, ExternLine, MacroUseLine, BodyLine, EmptyLine}

Snippets == UNION {[1..n -> LineVocab] : n \in 0..MaxLines}

ExternArgs == {<<>>, <<"a">>, <<"c", "a">>, <<"a", "a">>}
WildArgs == {<<>>, <<"a">>}
PrependArgs == {<<>>, <<"use ", "c">>, <<"let ", "y">>}

AliasAZ == <<"a", "=", "z">>
AliasAB == <<"a", " ", "=", " ", "b">>
AliasCZ == <<"c", "=", "z">>
AliasBad == <<"c">>

NoResult == [crate_begin |-> <<>>, prefix |-> <<>>, body |-> <<>>, found |-> <<>>,
             hoisted |-> <<>>, deduced_externs |-> <<>>, massaged_code |-> <<>>]

SnippetInit ==
    /\ pc = "start"
    /\ code \in {Unlines(ls) : ls \in Snippets}
    /\ arg_extern \in ExternArgs
    /\ arg_wild \in WildArgs
    /\ arg_prepend \in PrependArgs
    /\ arg_no_prelude \in BOOLEAN
    /\ alias_file \in {NoFile, File(Unlines(<<AliasAZ>>))}
    /\ massaged = NoResult
    /\ remassaged = NoResult
    /\ aliases_arg = <<>>
    /\ alias_before = NoFile
    /\ alias_map = EmptyMap
    /\ CacheIdle
    /\ LayoutIdle
    /\ CompileIdle
    /\ OtherIdle

\* main: the snippet is turned into a program
MassageSnippet ==
    /\ pc = "start"
    /\ massaged' = massage_snippet(code, MaybePrelude, MainExternCrates,
                                   arg_wild, MainExtra)
    /\ pc' = "massaged"
    /\ UNCHANGED <<code, arg_extern, arg_wild, arg_prepend, arg_no_prelude,
                   remassaged, alias_vars, cache_vars, layout_vars, compile_vars, other_vars>>

\* the transformer run again on the body it placed inside run()
Remassage ==
    /\ pc = "massaged"
    /\ remassaged' = massage_snippet(massaged.body, <<>>, <<>>, <<>>, <<>>)
    /\ pc' = "remassaged"
    /\ UNCHANGED <<code, arg_extern, arg_wild, arg_prepend, arg_no_prelude,
                   massaged, alias_vars, cache_vars, layout_vars, compile_vars, other_vars>>

SnippetNext == MassageSnippet \/ Remassage

SnippetSpec == SnippetInit /\ [][SnippetNext]_vars

----------------------------------------------------------------------------
(* The alias file under a sequence of add_aliases and get_aliases calls.    *)

\* the bounds on the entries given to one add_aliases call and on the lines
\* of the alias file
MaxAliasArgs == 2
MaxAliasLines == 3

AliasVocab == {AliasAZ, AliasAB, AliasCZ, AliasBad}
AliasLists == UNION {[1..n -> AliasVocab] : n \in 0..MaxAliasArgs}

SnippetIdle ==
    /\ code = <<>>
    /\ arg_extern = <<>>
    /\ arg_wild = <<>>
    /\ arg_prepend = <<>>
    /\ arg_no_prelude = FALSE
    /\ massaged = NoResult
    /\ remassaged = NoResult

AliasInit ==
    /\ pc = "alias"
    /\ alias_file \in {NoFile, File(<<>>)}
    /\ aliases_arg = <<>>
    /\ alias_before = alias_file
    /\ alias_map = EmptyMap
    /\ SnippetIdle
    /\ CacheIdle
    /\ LayoutIdle
    /\ CompileIdle
    /\ OtherIdle

\* add_aliases(aliases)
AddAliases ==
    \E aliases \in AliasLists :
        /\ pc \in {"alias", "added", "looked_up"}
        /\ Len(Lines(alias_file.text)) + Len(aliases) <= MaxAliasLines
        /\ alias_before' = alias_file
        /\ aliases_arg' = aliases
        /\ alias_file' = add_aliases_file(alias_file, aliases)
        /\ pc' = "added"
        /\ UNCHANGED <<alias_map, snippet_vars, cache_vars, layout_vars, compile_vars, other_vars>>

\* get_aliases()
GetAliases ==
    /\ pc \in {"alias", "added", "looked_up"}
    /\ alias_map' = get_aliases
    /\ pc' = "looked_up"
    /\ UNCHANGED <<alias_file, aliases_arg, alias_before, snippet_vars, cache_vars,
                   layout_vars, compile_vars, other_vars>>

AliasNext == AddAliases \/ GetAliases

AliasSpec == AliasInit /\ [][AliasNext]_vars

----------------------------------------------------------------------------
(* Cache management: static_cache_ops, create_static and build_static of    *)
(* cache.rs; the cache section of main, create_static_cache and             *)
(* build_static_cache of main.rs.  A step runs from one call of the build   *)
(* tool to the next.                                                        *)

\* the bound on the number of invocations in a row
MaxRuns == 2

CrA == <<"a">>
CrBv == <<"b", "=", "1">>
CrP == <<"./p">>
AddArgs == {<<>>, <<CrA>>, <<CrBv>>, <<CrA, CrP>>, << <<"kitchen-sink">> >>}
Ops == {"none", "build", "update", "doc", "cleanup", "crates", "edit"}

ArgChoices ==
    {a \in [crates : AddArgs, create : BOOLEAN, op : Ops, program : BOOLEAN] :
        a.create => (impl = "main.rs" /\ a.crates # <<>>)}

\* the part of the state a cache operation works on
Cur ==
    [pc |-> pc, static_cache |-> static_cache, manifest |-> manifest,
     tmpfile |-> tmpfile, meta_file |-> meta_file, m |-> m, caller |-> caller,
     events |-> events, failures |-> failures, cf |-> cf,
     manifest_pre |-> manifest_pre, meta_pre |-> meta_pre]

Assign(n) ==
    /\ pc' = n.pc
    /\ static_cache' = n.static_cache
    /\ manifest' = n.manifest
    /\ tmpfile' = n.tmpfile
    /\ meta_file' = n.meta_file
    /\ m' = n.m
    /\ caller' = n.caller
    /\ events' = n.events
    /\ failures' = n.failures
    /\ cf' = n.cf
    /\ manifest_pre' = n.manifest_pre
    /\ meta_pre' = n.meta_pre
    /\ UNCHANGED <<impl, args, runs, snippet_vars, alias_vars, layout_vars, compile_vars, other_vars>>

Log(s, e) == [s EXCEPT !.events = Append(@, e)]

\* the number of build_static calls so far
Builds(ev) == Cardinality({i \in DOMAIN ev : ev[i] = "build_static"})

Failed(s, step) ==
    [s EXCEPT !.failures =
        Append(@, [caller |-> s.caller, step |-> step, build |-> Builds(s.events),
                   at |-> Len(s.events)])]

\* es::quit, args.quit: the process exits
Quit(s) == [s EXCEPT !.pc = "done", !.cf = "quit"]

\* static_cache_ops returns ControlFlow::Break; main returns
EndOps(s) ==
    [s EXCEPT !.pc = "done", !.cf = IF impl = "cache.rs" THEN "Break" ELSE "return"]

\* static_cache_ops returns ControlFlow::Continue; main goes on to the program
ContinueOps(s) == [s EXCEPT !.pc = "done", !.cf = "Continue"]

\* build_static is entered
EnterBuild(s, c) ==
    [Log(s, "build_static") EXCEPT !.caller = c, !.m = NewMeta,
                                   !.meta_pre = s.meta_file,
                                   !.pc = "cargo_build_debug"]

\* create_static without the restore of the backup
CreateStaticAfterBuild_NoRestore(s, result) ==
    [s EXCEPT !.pc = "create_static_returned"]

\* create_static once build_static has returned
CreateStaticAfterBuild(s, result) ==
    IF ~result
    THEN [Log(s, "restore Cargo.toml") EXCEPT !.manifest = s.tmpfile.text,
                                              !.pc = "create_static_returned"]
    ELSE [s EXCEPT !.pc = "create_static_returned"]

\* build_static returns to its caller; static_cache_ops and main drop the result
BuildReturns(s, result) ==
    IF s.caller = "add" THEN CreateStaticAfterBuild(s, result) ELSE EndOps(s)

\* build_static going on to the release pass whatever the debug pass did
CargoBuildDebugStep_GoOn(s, ok) ==
    LET t == Log(s, "cargo build")
    IN [(IF ok THEN Log(t, "m.debug") ELSE Failed(t, "debug"))
            EXCEPT !.m = IF ok THEN MetaDebug(s.m, CargoOutput(s.manifest, FALSE)) ELSE @,
                   !.pc = "cargo_build_release"]

\* build_static: cargo_build(false) and what follows it
CargoBuildDebugStep(s, ok) ==
    LET t == Log(s, "cargo build")
    IN IF ok
       THEN [Log(t, "m.debug") EXCEPT !.m = MetaDebug(s.m, CargoOutput(s.manifest, FALSE)),
                                      !.pc = "cargo_build_release"]
       ELSE BuildReturns(Failed(t, "debug"), FALSE)

\* build_static: cargo_build(true), m.release and m.update
CargoBuildReleaseStep(s, ok) ==
    LET t == Log(s, "cargo build --release")
        full == MetaRelease(s.m, CargoOutput(s.manifest, TRUE))
    IN IF ok
       THEN [Log(Log(t, "m.release"), "m.update") EXCEPT !.m = full,
                                                         !.meta_file = MetaFile(full),
                                                         !.pc = "cargo_doc"]
       ELSE BuildReturns(Failed(t, "release"), FALSE)

\* build_static: cargo doc, whose success is the result
CargoDocStep(s, ok) ==
    LET t == Log(s, "cargo doc")
    IN BuildReturns(IF ok THEN t ELSE Failed(t, "doc"), ok)

\* create_static / create_static_cache from the backup of the manifest on
EditManifest(s, mdata) ==
    LET crates == kitchen_sink(args.crates)
        cv == crates_vs(mdata, crates)
        added == IF impl = "cache.rs" THEN AppendedCache(cv) ELSE AppendedMain(crates)
    IN IF impl = "cache.rs" /\ cv = <<>>
       THEN [s EXCEPT !.pc = "create_static_returned"]
       ELSE EnterBuild(
              [s EXCEPT !.tmpfile = File(s.manifest),
                        !.manifest_pre = s.manifest,
                        !.manifest = s.manifest \o added,
                        !.events = @ \o <<"backup Cargo.toml", "append Cargo.toml">>],
              "add")

\* create_static / create_static_cache up to the first call of the build tool
CreateStaticStep(s) ==
    IF impl = "cache.rs"
    THEN IF s.static_cache
         THEN (IF s.meta_file.exists THEN EditManifest(s, s.meta_file) ELSE Quit(s))
         ELSE [s EXCEPT !.pc = "cargo_new"]
    ELSE IF args.create /\ s.static_cache THEN Quit(s)
         ELSE IF args.create \/ ~s.static_cache THEN [s EXCEPT !.pc = "cargo_new"]
         ELSE EditManifest(s, NoMetaFile)

\* cargo new --bin static-cache and what follows it
CargoNewStep(s, ok) ==
    IF ok
    THEN EditManifest([Log(s, "cargo new") EXCEPT !.static_cache = TRUE,
                                                  !.manifest = ManifestBase,
                                                  !.meta_file = NoMetaFile],
                      NoMetaFile)
    ELSE Quit(Log(s, "cargo new"))

\* the operations on the static cache chosen by the flags
FlagOps(s) ==
    IF args.op = "none" THEN ContinueOps(s)
    ELSE IF ~s.static_cache THEN Quit(s)
    ELSE IF args.op = "build" THEN EnterBuild(s, "build")
    ELSE IF args.op = "update" THEN EndOps(Log(s, "cargo update"))
    ELSE IF args.op = "doc" THEN EndOps(Log(s, "open doc"))
    ELSE IF args.op = "cleanup"
      THEN (IF impl = "cache.rs" THEN EndOps(Log(s, "cargo clean")) ELSE Quit(s))
    ELSE IF args.op = "crates"
      THEN (IF s.meta_file.exists THEN EndOps(Log(s, "dump crates")) ELSE Quit(s))
    ELSE EndOps(Log(s, "edit Cargo.toml"))

\* static_cache_ops after create_static returned; main returns there
AfterCreateStatic(s) ==
    IF impl = "main.rs" THEN EndOps(s)
    ELSE IF ~args.program THEN EndOps(s)
    ELSE FlagOps(s)

CacheInit ==
    /\ pc = "idle"
    /\ impl \in {"main.rs", "cache.rs"}
    /\ args = NoArgs
    /\ static_cache = FALSE
    /\ manifest = <<>>
    /\ tmpfile = NoFile
    /\ meta_file = NoMetaFile
    /\ m = NewMeta
    /\ caller = "none"
    /\ events = <<>>
    /\ failures = <<>>
    /\ cf = "none"
    /\ manifest_pre = <<>>
    /\ meta_pre = NoMetaFile
    /\ runs = 0
    /\ SnippetIdle
    /\ AliasIdle
    /\ LayoutIdle
    /\ CompileIdle
    /\ OtherIdle

\* a new invocation with its arguments
StartInvocation ==
    \E a \in ArgChoices :
        /\ pc \in {"idle", "done"}
        /\ runs < MaxRuns
        /\ args' = a
        /\ runs' = runs + 1
        /\ pc' = "ops"
        /\ events' = <<>>
        /\ failures' = <<>>
        /\ cf' = "none"
        /\ caller' = "none"
        /\ m' = NewMeta
        /\ manifest_pre' = manifest
        /\ meta_pre' = meta_file
        /\ UNCHANGED <<impl, static_cache, manifest, tmpfile, meta_file,
                       snippet_vars, alias_vars, layout_vars, compile_vars, other_vars>>

\* static_cache_ops (main: the cache section) up to the first build tool call
StaticCacheOps ==
    /\ pc = "ops"
    /\ Assign(IF args.crates # <<>> THEN CreateStaticStep(Cur) ELSE FlagOps(Cur))

CargoNew ==
    /\ pc = "cargo_new"
    /\ \E ok \in BOOLEAN : Assign(CargoNewStep(Cur, ok))

CargoBuildDebug ==
    /\ pc = "cargo_build_debug"
    /\ \E ok \in BOOLEAN : Assign(CargoBuildDebugStep(Cur, ok))

CargoBuildRelease ==
    /\ pc = "cargo_build_release"
    /\ \E ok \in BOOLEAN : Assign(CargoBuildReleaseStep(Cur, ok))

CargoDoc ==
    /\ pc = "cargo_doc"
    /\ \E ok \in BOOLEAN : Assign(CargoDocStep(Cur, ok))

CreateStaticReturned ==
    /\ pc = "create_static_returned"
    /\ Assign(AfterCreateStatic(Cur))

CacheNext ==
    \/ StartInvocation
    \/ StaticCacheOps
    \/ CargoNew
    \/ CargoBuildDebug
    \/ CargoBuildRelease
    \/ CargoDoc
    \/ CreateStaticReturned

CacheSpec == CacheInit /\ [][CacheNext]_vars

----------------------------------------------------------------------------
(* The cache directory layout under repeated calls of get_prelude, one for  *)
(* each run of the program.                                                 *)

MaxCalls == 2

BinEntries == {"tmp.rs", "tmp"}
DyEntries == {"liba.so"}

LayoutInit ==
    /\ pc = "layout"
    /\ home \in {"absent", "dir"}
    /\ IF home = "absent"
       THEN prelude_file = NoFile /\ bin_dir = NoDir /\ dy_cache_dir = NoDir
       ELSE /\ prelude_file \in {NoFile, File(PRELUDE), File(EditedPrelude)}
            /\ bin_dir \in {NoDir, NotADir} \cup {Dir(es) : es \in SUBSET BinEntries}
            /\ dy_cache_dir \in {NoDir} \cup {Dir(es) : es \in SUBSET DyEntries}
    /\ prelude_ret = Died
    /\ fs_before = Layout(home, prelude_file, bin_dir, dy_cache_dir)
    /\ ret_before = Died
    /\ calls = 0
    /\ SnippetIdle
    /\ AliasIdle
    /\ CacheIdle
    /\ CompileIdle
    /\ OtherIdle

\* get_prelude()
GetPrelude ==
    /\ pc = "layout"
    /\ calls < MaxCalls
    /\ LET fs == Layout(home, prelude_file, bin_dir, dy_cache_dir)
           r == get_prelude(fs)
       IN /\ home' = r.fs.home
          /\ prelude_file' = r.fs.prelude
          /\ bin_dir' = r.fs.bin
          /\ dy_cache_dir' = r.fs.dy_cache
          /\ prelude_ret' = r.ret
          /\ fs_before' = fs
    /\ ret_before' = prelude_ret
    /\ calls' = calls + 1
    /\ UNCHANGED <<pc, snippet_vars, alias_vars, cache_vars, compile_vars, other_vars>>

LayoutNext == GetPrelude

LayoutSpec == LayoutInit /\ [][LayoutNext]_vars

----------------------------------------------------------------------------
(* One call of compile_crate, for every State, set of crates and metadata.  *)

\* the metadata of a static cache built with the named dependencies
MetaOf(names) ==
    MetaRelease(MetaDebug(NewMeta, [n \in names |-> ArtifactName(n, FALSE)]),
                [n \in names |-> ArtifactName(n, TRUE)])

MetaChoices ==
    {NoMetaFile} \cup {MetaFile(MetaOf(ns)) : ns \in {{}, {"a"}, {"a", "c"}, {"a", "c", "libc", "z"}}}

CompileStates ==
    {StateExe(s, o) : s \in BOOLEAN, o \in BOOLEAN} \cup {StateDll(o) : o \in BOOLEAN}

CompileArgs ==
    [extern : {<<>>, <<"a">>, <<"c", "a">>, <<"z", "libc">>},
     libc : BOOLEAN,
     cfg : {<<>>, << <<"nightly">> >>},
     features : {<<>>, <<"serde">>},
     link : {None, Some(<<"deps/">>)}]

DeducedChoices == {<<>>, <<"a">>, <<"a", "c">>}

\* the crates built as libraries and the dependencies named later
LibraryNames == {"a", "my-crate"}
LaterNames == {"a", "c", "my-crate", "my_crate"}

CratePath == runner_directory \o <<"bin/", "tmp.rs">>
Program == runner_directory \o <<"bin/", "tmp">>

CompileInit ==
    /\ pc = "compile"
    /\ state \in CompileStates
    /\ cargs \in CompileArgs
    /\ crate_name \in (IF state.exe THEN {<<>>} ELSE {Chars(n) : n \in LibraryNames})
    /\ deduced \in DeducedChoices
    /\ platform \in {"linux", "macos", "windows"}
    /\ compiled = NotCompiled
    /\ later = NotLinked
    /\ impl = "main.rs"
    /\ args = NoArgs
    /\ meta_file \in MetaChoices
    /\ static_cache = meta_file.exists
    /\ manifest = <<>>
    /\ tmpfile = NoFile
    /\ m = NewMeta
    /\ caller = "none"
    /\ events = <<>>
    /\ failures = <<>>
    /\ cf = "none"
    /\ manifest_pre = <<>>
    /\ meta_pre = NoMetaFile
    /\ runs = 0
    /\ SnippetIdle
    /\ AliasIdle
    /\ LayoutIdle
    /\ OtherIdle

\* compile_crate(args, state, crate_name, crate_path, output_program, extern_crates)
CompileCrate ==
    /\ pc = "compile"
    /\ compiled' = compile_crate(cargs, state, crate_name, CratePath, Program, deduced, meta_file)
    /\ pc' = "compiled"
    /\ UNCHANGED <<state, cargs, crate_name, deduced, platform, later, snippet_vars,
                   alias_vars, cache_vars, layout_vars, other_vars>>

\* a later invocation compiles a program against the dynamic cache with one
\* dependency named on the command line
CompileLater ==
    \E dep \in LaterNames, optimized \in BOOLEAN :
        /\ pc = "compiled"
        /\ ~state.exe
        /\ compiled.outcome = "invoked"
        /\ later' = [dep |-> dep,
                     result |-> compile_crate(PlainArgs, StateExe(FALSE, optimized), <<>>,
                                              CratePath, Program, <<dep>>, meta_file)]
        /\ pc' = "linked"
        /\ UNCHANGED <<state, cargs, crate_name, deduced, platform, compiled, snippet_vars,
                       alias_vars, cache_vars, layout_vars, other_vars>>

CompileNext == CompileCrate \/ CompileLater

CompileSpec == CompileInit /\ [][CompileNext]_vars

----------------------------------------------------------------------------
(* cargo_build reading the build tool's output line by line.                *)

MaxStream == 3

\* a structured message, a line that opens like one but is none, a line of
\* plain progress text, an empty line
JsonLine == <<"{", "\"reason\":\"compiler-artifact\"", "}">>
BrokenLine == <<"{", "oops">>
TextLine == <<"Compiling ", "a">>

StreamVocab == {OkLine(JsonLine), OkLine(BrokenLine), OkLine(TextLine), OkLine(<<>>), ErrLine}
Streams == UNION {[1..n -> StreamVocab] : n \in 0..MaxStream}

StreamInit ==
    /\ pc = "cargo_reading"
    /\ impl \in {"main.rs", "cache.rs"}
    /\ cb_input \in Streams
    /\ cb_stream = cb_input
    /\ cb_out = <<>>
    /\ cb_console = <<>>
    /\ cb_success = FALSE
    /\ cb_ret = None
    /\ args = NoArgs
    /\ static_cache = TRUE
    /\ manifest = ManifestBase
    /\ tmpfile = NoFile
    /\ meta_file = NoMetaFile
    /\ m = NewMeta
    /\ caller = "none"
    /\ events = <<>>
    /\ failures = <<>>
    /\ cf = "none"
    /\ manifest_pre = <<>>
    /\ meta_pre = NoMetaFile
    /\ runs = 0
    /\ MainIdle
    /\ SnippetIdle
    /\ AliasIdle
    /\ LayoutIdle
    /\ CompileIdle

\* cargo_build: one turn of the loop over inb.lines()
ReadLine ==
    /\ pc = "cargo_reading"
    /\ cb_stream # <<>>
    /\ LET line == Head(cb_stream)
       IN IF line.ok
          THEN /\ cb_stream' = Tail(cb_stream)
               /\ pc' = pc
               /\ IF starts_with_brace(line.text)
                  THEN cb_out' = cb_out \o line.text \o <<NL>> /\ cb_console' = cb_console
                  ELSE cb_console' = Append(cb_console, line.text) /\ cb_out' = cb_out
          ELSE /\ UNCHANGED <<cb_out, cb_console>>
               /\ IF impl = "cache.rs"
                  THEN pc' = "cargo_waiting" /\ cb_stream' = cb_stream
                  ELSE pc' = pc /\ cb_stream' = Tail(cb_stream)
    /\ UNCHANGED <<cb_input, cb_success, cb_ret, main_vars, snippet_vars, alias_vars,
                   cache_vars, layout_vars, compile_vars>>

\* cargo_build: the build tool closed its standard output
EndOfStream ==
    /\ pc = "cargo_reading"
    /\ cb_stream = <<>>
    /\ pc' = "cargo_waiting"
    /\ UNCHANGED <<stream_vars, main_vars, snippet_vars, alias_vars, cache_vars, layout_vars,
                   compile_vars>>

\* what cargo_build returns for the exit status
cargo_build_result(success, out) == IF success THEN Some(out) ELSE None

\* cargo_build: res.wait() and the value returned
WaitForExit ==
    \E success \in BOOLEAN :
        /\ pc = "cargo_waiting"
        /\ cb_success' = success
        /\ cb_ret' = cargo_build_result(success, cb_out)
        /\ pc' = "cargo_returned"
        /\ UNCHANGED <<cb_input, cb_stream, cb_out, cb_console, main_vars, snippet_vars,
                       alias_vars, cache_vars, layout_vars, compile_vars>>

StreamNext == ReadLine \/ EndOfStream \/ WaitForExit

StreamSpec == StreamInit /\ [][StreamNext]_vars

----------------------------------------------------------------------------
(* main from the check of --run and --compile-only to the run of the        *)
(* program, for a program compiled as an executable.                        *)

MainArgs == [run : BOOLEAN, compile_only : BOOLEAN]

MainInit ==
    /\ pc = "main"
    /\ margs \in MainArgs
    /\ program_exists \in BOOLEAN
    /\ main_events = <<>>
    /\ state \in {StateExe(st, o) : st \in BOOLEAN, o \in BOOLEAN}
    /\ cargs \in CompileArgs
    /\ crate_name = <<>>
    /\ deduced \in DeducedChoices
    /\ platform = "linux"
    /\ compiled = NotCompiled
    /\ later = NotLinked
    /\ impl = "main.rs"
    /\ args = NoArgs
    /\ meta_file \in MetaChoices
    /\ static_cache = meta_file.exists
    /\ manifest = <<>>
    /\ tmpfile = NoFile
    /\ m = NewMeta
    /\ caller = "none"
    /\ events = <<>>
    /\ failures = <<>>
    /\ cf = "none"
    /\ manifest_pre = <<>>
    /\ meta_pre = NoMetaFile
    /\ runs = 0
    /\ StreamIdle
    /\ SnippetIdle
    /\ AliasIdle
    /\ LayoutIdle

\* main: --run and --compile-only make no sense together
MainFlags ==
    /\ pc = "main"
    /\ IF margs.run /\ margs.compile_only
       THEN main_events' = Append(main_events, "quit") /\ pc' = "main_done"
       ELSE main_events' = main_events /\ pc' = "main_program"
    /\ UNCHANGED <<margs, program_exists, stream_vars, snippet_vars, alias_vars, cache_vars,
                   layout_vars, compile_vars>>

\* where main goes on after compile_crate returned
AfterCompile_Always(ok) == "main_compiled"
AfterCompile(ok) == IF ok THEN "main_compiled" ELSE "main_done"

\* main: with --run the program must exist, otherwise it is compiled
MainCompile ==
    /\ pc = "main_program"
    /\ IF margs.run
       THEN /\ IF program_exists
               THEN main_events' = main_events /\ pc' = "main_compiled"
               ELSE main_events' = Append(main_events, "quit") /\ pc' = "main_done"
            /\ compiled' = compiled
       ELSE LET r == compile_crate(cargs, state, <<>>, CratePath, Program, deduced, meta_file)
            IN /\ compiled' = r
               /\ IF r.outcome = "died"
                  THEN main_events' = Append(main_events, "quit") /\ pc' = "main_done"
                  ELSE \E ok \in BOOLEAN :
                          /\ main_events' = Append(main_events,
                                 IF ok THEN "compiled" ELSE "compile failed")
                          /\ pc' = AfterCompile(ok)
    /\ UNCHANGED <<margs, program_exists, state, cargs, crate_name, deduced, platform, later,
                   stream_vars, snippet_vars, alias_vars, cache_vars, layout_vars>>

\* main: --compile-only copies the program and returns
MainCopy ==
    /\ pc = "main_compiled"
    /\ margs.compile_only
    /\ main_events' = Append(main_events, "copy")
    /\ pc' = "main_done"
    /\ UNCHANGED <<margs, program_exists, stream_vars, snippet_vars, alias_vars, cache_vars,
                   layout_vars, compile_vars>>

\* main: finally run the compiled program
MainRun ==
    /\ pc = "main_compiled"
    /\ ~margs.compile_only
    /\ main_events' = Append(main_events, "run")
    /\ pc' = "main_done"
    /\ UNCHANGED <<margs, program_exists, stream_vars, snippet_vars, alias_vars, cache_vars,
                   layout_vars, compile_vars>>

MainNext == MainFlags \/ MainCompile \/ MainCopy \/ MainRun

MainSpec == MainInit /\ [][MainNext]_vars

----------------------------------------------------------------------------
(* Properties of the snippet transformer.                                   *)

Range(s) == {s[i] : i \in DOMAIN s}

IsAttrLine(line) == starts_with(trim_left(line), CRATE_ATTR)
IsImportLine(line) ==
    \/ starts_with(trim_left(line), EXTERN)
    \/ starts_with(trim_left(line), USE_DECL)
    \/ starts_with(trim_left(line), MACRO_USE)

\* the crate-level attribute lines of the snippet, without their indentation
InputAttrLines == {trim_left(l) : l \in {x \in Range(Lines(code)) : IsAttrLine(x)}}

\* the position of the line that opens the generated run()
RunAt(out) == CHOOSE i \in DOMAIN out : out[i] = <<RUN_HEADER>>

\* C1: every crate-level attribute line of the snippet, wherever it stood in
\* the snippet, is in the output before every import/use line, and none is
\* inside the body of the generated run().
C1_AttrsBeforeImports ==
    pc # "start" =>
        LET out == Lines(massaged.massaged_code)
        IN /\ \A a \in InputAttrLines : \E i \in DOMAIN out : trim_left(out[i]) = a
           /\ \A i \in DOMAIN out :
                (IsAttrLine(out[i]) /\ trim_left(out[i]) \in InputAttrLines) =>
                    /\ i < RunAt(out)
                    /\ \A j \in DOMAIN out : IsImportLine(out[j]) => i < j

\* the names that follow "extern crate " somewhere on a line
ExternCrateNames(line) ==
    {line[k + 2] : k \in {j \in 1..(Len(line) - 2) :
                            /\ line[j] = "extern "
                            /\ line[j + 1] = "crate "
                            /\ line[j + 2] \notin WordEnd}}

\* the lines of the snippet that massage_snippet hoisted
HoistedLines == {Lines(code)[i] : i \in Range(massaged.hoisted)}

\* C2: the deduced externs hold every requested name and every name of a
\* hoisted `extern crate` line, without duplicates and in ascending order.
C2_DeducedExterns ==
    pc # "start" =>
        LET d == massaged.deduced_externs
        IN /\ Range(MainExternCrates) \subseteq Range(d)
           /\ \A l \in HoistedLines : ExternCrateNames(l) \subseteq Range(d)
           /\ \A i, j \in DOMAIN d : i < j => Rank(d[i]) < Rank(d[j])

\* C2 witness: requested names out of order, one of them also imported by the
\* snippet, next to a macro-use import
C2_Witness ==
    /\ pc = "massaged"
    /\ arg_extern = <<"c", "a">>
    /\ massaged.found = <<"d", "a">>
    /\ massaged.deduced_externs = <<"a", "c", "d">>

\* C3: run on the body it generated, massage_snippet finds no header line:
\* nothing goes to the preamble or the crate-attribute segment and no extern
\* is deduced.
C3_Idempotent ==
    pc = "remassaged" =>
        /\ remassaged.prefix = <<>>
        /\ remassaged.crate_begin = <<>>
        /\ remassaged.deduced_externs = <<>>

\* the number of lines of a text that are equal to the given line
CountLines(txt, line) == Cardinality({i \in DOMAIN Lines(txt) : Lines(txt)[i] = line})

PlainImport(c) == <<"extern ", "crate ", c, ";">>
RenameImport(target, c) == <<"extern ", "crate ">> \o target \o <<" ", "as ", c, ";">>

\* C10: the preamble holds exactly one import declaration for each requested
\* name: the rename form if the alias file has an entry for the name (and
\* then no plain form), the plain form otherwise.  Stated for snippets that
\* bring no import declaration of their own.
C10_OneImportPerName ==
    (pc # "start" /\ massaged.found = <<>>) =>
        \A c \in Range(MainExternCrates) :
            LET al == get_aliases
            IN IF <<c>> \in DOMAIN al
               THEN /\ CountLines(massaged.prefix, RenameImport(al[<<c>>], c)) = 1
                    /\ CountLines(massaged.prefix, PlainImport(c)) = 0
               ELSE CountLines(massaged.prefix, PlainImport(c)) = 1

\* the lines of the snippet and their kinds
SnippetLines == Lines(code)
IsBlank(line) == trim_left(line) = <<>>
IsShebangLine(line) == starts_with(trim_left(line), SHEBANG)
IsHeaderLine(line) == IsShebangLine(line) \/ IsImportLine(line) \/ IsAttrLine(line)

\* the first line that is neither blank nor a header line, 0 if there is none
BodyStart ==
    LET cand == {i \in DOMAIN SnippetLines :
                    ~IsBlank(SnippetLines[i]) /\ ~IsHeaderLine(SnippetLines[i])}
    IN IF cand = {} THEN 0 ELSE CHOOSE i \in cand : \A j \in cand : i <= j

\* t ends s
HasSuffix(s, t) == Len(t) <= Len(s) /\ SubSeq(s, Len(s) - Len(t) + 1, Len(s)) = t

\* the preamble, the crate-attribute segment and the deduced externs of a result
Segments(res) == <<res.prefix, res.crate_begin, res.deduced_externs>>

CountOut(t) ==
    LET out == Lines(massaged.massaged_code)
    IN Cardinality({j \in DOMAIN out : HasSuffix(out[j], t)})

\* the lines of the snippet other than a shebang first line whose text,
\* without the indentation, is t
CountKept(t) ==
    Cardinality({i \in DOMAIN SnippetLines :
                    /\ trim_left(SnippetLines[i]) = t
                    /\ (i >= 2 \/ ~IsShebangLine(SnippetLines[1]))})

\* C12: a shebang line is dropped exactly if it is the first line of the
\* snippet: it is not in the generated program then, and every non-blank
\* line at position two or later is in the generated program, a line that
\* starts with `#!/` included.
C12_ShebangOnlyFirst ==
    pc # "start" =>
        \A i \in DOMAIN SnippetLines :
            LET t == trim_left(SnippetLines[i])
            IN ~IsBlank(SnippetLines[i]) =>
                  /\ CountOut(t) >= CountKept(t)
                  /\ IsShebangLine(SnippetLines[i]) => CountOut(t) <= CountKept(t)

WildImport(c) == <<"use ", c, "::*", ";">>

\* the import declarations of the name c in the preamble, plain or renamed
ImportCount(c) ==
    LET pl == Lines(massaged.prefix)
    IN Cardinality({j \in DOMAIN pl :
            \/ pl[j] = PlainImport(c)
            \/ /\ Len(pl[j]) >= 4
               /\ SubSeq(pl[j], 1, 2) = <<"extern ", "crate ">>
               /\ SubSeq(pl[j], Len(pl[j]) - 2, Len(pl[j])) = <<"as ", c, ";">>})

\* C16: for every -x and -X list the preamble holds exactly one
\* `use NAME::*;` for each wildcard name and exactly one import declaration
\* for each distinct requested name, also when the -x list is empty.  Stated
\* for snippets that bring no import declaration of their own.
C16_NoDuplicateImports ==
    (pc # "start" /\ massaged.found = <<>>) =>
        /\ \A w \in Range(arg_wild) : CountLines(massaged.prefix, WildImport(w)) = 1
        /\ \A c \in Range(arg_extern) \cup Range(arg_wild) : ImportCount(c) = 1

----------------------------------------------------------------------------
(* Properties of the alias file.                                            *)

\* the lines of a file, none if the file does not exist
FileLines(file) == IF file.exists THEN Lines(file.text) ELSE <<>>

\* a line of the form alias=target, its alias and its target
IsEntry(line) == \E i \in DOMAIN line : line[i] = "="
EqAt(line) == CHOOSE i \in DOMAIN line : line[i] = "=" /\ \A j \in 1..(i - 1) : line[j] # "="
EntryAlias(line) == trim(SubSeq(line, 1, EqAt(line) - 1))
EntryTarget(line) == trim(SubSeq(line, EqAt(line) + 1, Len(line)))

\* C9: add_aliases only appends: the file is what it was followed by the
\* given entries in order, an empty list leaves it as it was (absent if it
\* was absent); get_aliases maps an alias to the target of the last entry
\* for it in the file, and knows no other alias.
C9_AppendOnlyLastWins ==
    /\ pc = "added" =>
        IF aliases_arg = <<>> THEN alias_file = alias_before
        ELSE /\ alias_file.exists
             /\ alias_file.text = alias_before.text \o Unlines(aliases_arg)
             /\ FileLines(alias_file) = FileLines(alias_before) \o aliases_arg
    /\ pc = "looked_up" =>
        LET ls == FileLines(alias_file)
            entries == {i \in DOMAIN ls : IsEntry(ls[i])}
        IN /\ DOMAIN alias_map = {EntryAlias(ls[i]) : i \in entries}
           /\ \A i \in entries :
                (\A j \in entries : j > i => EntryAlias(ls[j]) # EntryAlias(ls[i]))
                    => alias_map[EntryAlias(ls[i])] = EntryTarget(ls[i])

\* C9 witness: a second call appended to an existing file an entry for an
\* alias the file already had, and the lookup gives the later target
C9_Witness ==
    /\ pc = "looked_up"
    /\ alias_before = File(Unlines(<<AliasAZ>>))
    /\ aliases_arg = <<AliasBad, AliasAB>>
    /\ alias_file = File(Unlines(<<AliasAZ, AliasBad, AliasAB>>))
    /\ alias_map = (<<"a">> :> <<"b">>)

----------------------------------------------------------------------------
(* Properties of the cache management.                                      *)

PassFailed(f) == f.step \in {"debug", "release"}

\* C4: when create_static (create_static_cache) has appended to the manifest
\* and the debug or the release pass of the build that follows fails, the
\* manifest is, once create_static returns, what it was before the edit.
C4_ManifestRestored ==
    (/\ pc = "create_static_returned"
     /\ \E i \in DOMAIN events : events[i] = "append Cargo.toml"
     /\ \E f \in Range(failures) : f.caller = "add" /\ PassFailed(f))
        => manifest = manifest_pre

\* C4 witness: a second --add to a cache that holds a crate already, the
\* release pass failed and the manifest is back to its earlier content
C4_Witness ==
    /\ pc = "create_static_returned"
    /\ impl = "cache.rs"
    /\ args.crates = <<CrBv>>
    /\ \E f \in Range(failures) : f.caller = "add" /\ f.step = "release"
    /\ tmpfile.exists
    /\ manifest = ManifestBase \o <<"a", "=", "\"", "*", "\"", NL>>

\* the Meta a full rebuild of the given manifest writes
FullMeta(text) ==
    MetaRelease(MetaDebug(NewMeta, CargoOutput(text, FALSE)), CargoOutput(text, TRUE))

\* C6: build_static runs the debug pass first and records it, then the
\* release pass and records it in the same Meta, and only then writes the
\* metadata cache file; the release pass is not started after a failed debug
\* pass, and the file is as it was when a pass of the build failed.
C6_RebuildOrder ==
    /\ \A i \in DOMAIN events :
        /\ events[i] = "cargo build" => i > 1 /\ events[i - 1] = "build_static"
        /\ events[i] = "m.debug" => i > 1 /\ events[i - 1] = "cargo build"
        /\ events[i] = "cargo build --release" => i > 1 /\ events[i - 1] = "m.debug"
        /\ events[i] = "m.release" => i > 1 /\ events[i - 1] = "cargo build --release"
        /\ events[i] = "m.update" => i > 1 /\ events[i - 1] = "m.release"
        /\ events[i] = "cargo doc" => i > 1 /\ events[i - 1] = "m.update"
    /\ \A f \in Range(failures) :
        (PassFailed(f) /\ f.build = Builds(events)) =>
            /\ meta_file = meta_pre
            /\ f.step = "debug" =>
                 \A i \in DOMAIN events : i > f.at => events[i] # "cargo build --release"
    /\ pc = "cargo_doc" => (m = FullMeta(manifest) /\ meta_file = MetaFile(m))
    /\ pc \in {"cargo_build_debug", "cargo_build_release"} => meta_file = meta_pre

\* C6 witness: a rebuild of a cache built before, whose release pass failed
\* after the debug pass was recorded; the metadata cache file is the old one
C6_Witness ==
    /\ pc = "done"
    /\ args.op = "build"
    /\ events = <<"build_static", "cargo build", "m.debug", "cargo build --release">>
    /\ \E f \in Range(failures) : f.step = "release"
    /\ meta_file.exists
    /\ meta_file = meta_pre

\* C7: once a pass of the build tool has failed, the invocation does no more
\* than restore the manifest and ends: it starts no other operation and does
\* not go on to the program.
C7_BuildFailureFatal ==
    \A f \in Range(failures) :
        PassFailed(f) =>
            /\ cf # "Continue"
            /\ \A i \in DOMAIN events : i > f.at => events[i] = "restore Cargo.toml"

\* the name of the crate a --add argument asks for
RequestedName(c) == IF c \in DOMAIN LocalProjects THEN LocalProjects[c].name ELSE c[1]

\* C20: when create_static returns after an edit of the manifest, the
\* manifest holds the appended entries exactly if the metadata file was
\* written by this invocation; the manifest is not restored after a failure
\* of the documentation step, which runs once the metadata is persisted; and
\* when every requested crate is in the cache already, the manifest and the
\* metadata file are untouched and no build is started.
C20_ManifestMetadataAgree ==
    pc = "create_static_returned" =>
        LET Has(e) == \E i \in DOMAIN events : events[i] = e
        IN /\ Has("append Cargo.toml") => ((manifest # manifest_pre) <=> Has("m.update"))
           /\ (\E f \in Range(failures) : f.step = "doc") => ~Has("restore Cargo.toml")
           /\ (/\ meta_pre.exists
               /\ \A c \in Range(kitchen_sink(args.crates)) :
                     RequestedName(c) \in DOMAIN meta_pre.crates)
                 => /\ manifest = manifest_pre
                    /\ meta_file = meta_pre
                    /\ ~Has("build_static")

----------------------------------------------------------------------------
(* Properties of the cache directory layout.                                *)

\* C8: after get_prelude has returned, the runner directory, the prelude,
\* bin and dy-cache all exist; each was created exactly if it was absent,
\* the prelude with the default text; what existed is unchanged; the text
\* returned is the prelude's; and a second call changes nothing and returns
\* the same text.
C8_PreludeInitialiser ==
    (calls >= 1 /\ prelude_ret.ok) =>
        /\ home = "dir"
        /\ prelude_file.exists
        /\ bin_dir.kind = "dir"
        /\ dy_cache_dir.kind = "dir"
        /\ prelude_file = IF fs_before.prelude.exists THEN fs_before.prelude ELSE File(PRELUDE)
        /\ bin_dir = IF fs_before.bin.kind = "absent" THEN Dir({}) ELSE fs_before.bin
        /\ dy_cache_dir = IF fs_before.dy_cache.kind = "absent" THEN Dir({})
                          ELSE fs_before.dy_cache
        /\ prelude_ret.text = prelude_file.text
        /\ (calls >= 2 /\ ret_before.ok) =>
              /\ Layout(home, prelude_file, bin_dir, dy_cache_dir) = fs_before
              /\ prelude_ret = ret_before

----------------------------------------------------------------------------
(* Properties of the compile orchestrator.                                  *)

\* the crates compile_crate links explicitly, and those of them the metadata
\* has no artifact for in the profile of the state
Requested == AllExterns(cargs, deduced)
Unresolved(c) ==
    \/ ~meta_file.exists
    \/ c \notin DOMAIN meta_file.crates
    \/ (IF state.optimize THEN meta_file.crates[c].release ELSE meta_file.crates[c].debug) = <<>>
FirstUnresolved ==
    Requested[CHOOSE i \in DOMAIN Requested :
                 /\ Unresolved(Requested[i])
                 /\ \A j \in 1..(i - 1) : ~Unresolved(Requested[j])]

\* the --extern reference of the dynamic cache's naming
DynamicBinding(c) ==
    Chars(c) \o <<"=">> \o get_cache(state) \o <<DLL_PREFIX>> \o Chars(c) \o <<DLL_SUFFIX>>
NoDynamicBinding == \A c \in Range(Requested) : DynamicBinding(c) \notin Range(compiled.argv)

ArgAfter(argv, flag) == {argv[i + 1] : i \in {j \in 1..(Len(argv) - 1) : argv[j] = flag}}

DyCacheDir == <<".cargo/", ".runner/", "dy-cache/">>
StaticDepsDir(optimize) ==
    <<".cargo/", ".runner/", "static-cache/", "target/",
      IF optimize THEN "release/" ELSE "debug/", "deps/">>

\* C13: the flags of the compiler follow the decision table: a dynamic build
\* has prefer-dynamic and debuginfo=0 and neither -g nor -O; a static debug
\* build has -g and none of -O, debuginfo=0, prefer-dynamic; a static release
\* build has -O and debuginfo=0 and neither -g nor prefer-dynamic; an
\* executable is written with -o to the path given, a library with
\* --crate-type dylib and --out-dir the cache, never both.
C13_ProfileFlags ==
    compiled.outcome = "invoked" =>
        LET A == Range(compiled.argv)
        IN /\ ~state.build_static =>
                /\ <<"prefer-dynamic">> \in A /\ <<"debuginfo=0">> \in A
                /\ <<"-g">> \notin A /\ <<"-O">> \notin A
           /\ (state.build_static /\ ~state.optimize) =>
                /\ <<"-g">> \in A
                /\ <<"-O">> \notin A /\ <<"debuginfo=0">> \notin A
                /\ <<"prefer-dynamic">> \notin A
           /\ (state.build_static /\ state.optimize) =>
                /\ <<"-O">> \in A /\ <<"debuginfo=0">> \in A
                /\ <<"-g">> \notin A /\ <<"prefer-dynamic">> \notin A
           /\ state.exe =>
                /\ ArgAfter(compiled.argv, <<"-o">>) = {Program}
                /\ <<"--crate-type">> \notin A /\ <<"--out-dir">> \notin A
           /\ ~state.exe =>
                /\ ArgAfter(compiled.argv, <<"--crate-type">>) = {<<"dylib">>}
                /\ ArgAfter(compiled.argv, <<"--out-dir">>) = {DyCacheDir}
                /\ <<"-o">> \notin A

\* C13 witness: a static release build of an executable
C13_Witness ==
    /\ pc = "compiled"
    /\ state = StateExe(TRUE, TRUE)
    /\ compiled.outcome = "invoked"
    /\ SubSeq(compiled.argv, 1, 3) = << <<"-O">>, <<"-C">>, <<"debuginfo=0">> >>
    /\ <<"-o">> \in Range(compiled.argv)

\* the file a library build writes: the --out-dir directory and the
\* --crate-name decorated with the platform's prefix and suffix
CrateNameArg == CHOOSE x \in ArgAfter(compiled.argv, <<"--crate-name">>) : TRUE
LibraryArtifact ==
    (CHOOSE x \in ArgAfter(compiled.argv, <<"--out-dir">>) : TRUE)
    \o <<DLL_PREFIX>> \o CrateNameArg \o <<DLL_SUFFIX>>

\* the path of the --extern reference of the later call
LaterBindingPath ==
    LET b == CHOOSE x \in ArgAfter(later.result.argv, <<"--extern">>) : TRUE
        n == Len(Chars(later.dep))
    IN SubSeq(b, n + 2, Len(b))

C17_ProfileConsistency ==
    compiled.outcome = "invoked" =>
        LET dir == IF state.build_static THEN StaticDepsDir(state.optimize) ELSE DyCacheDir
            file(c) == IF state.build_static
                       THEN (IF state.optimize THEN meta_file.crates[c].release
                             ELSE meta_file.crates[c].debug)
                       ELSE <<DLL_PREFIX>> \o Chars(c) \o <<DLL_SUFFIX>>
        IN /\ dir \in ArgAfter(compiled.argv, <<"-L">>)
           /\ \A c \in Range(Requested) :
                Chars(c) \o <<"=">> \o dir \o file(c) \in ArgAfter(compiled.argv, <<"--extern">>)
           /\ \A b \in ArgAfter(compiled.argv, <<"--extern">>) :
                \E c \in Range(Requested) : b = Chars(c) \o <<"=">> \o dir \o file(c)
           /\ state.build_static => \A b \in ArgAfter(compiled.argv, <<"--extern">>) :
                IF state.optimize
                THEN "debug/" \notin Range(b) /\ "dhash" \notin Range(b)
                ELSE "release/" \notin Range(b) /\ "rhash" \notin Range(b)

\* C17 witness: a static release build that links a and c
C17_Witness ==
    /\ pc = "compiled"
    /\ state = StateExe(TRUE, TRUE)
    /\ Requested = <<"a", "c">>
    /\ <<"c", "=">> \o StaticDepsDir(TRUE) \o <<"lib", "c", "-", "rhash", ".rlib">>
          \in ArgAfter(compiled.argv, <<"--extern">>)

\* C18: every dependency is bound by at most one --extern reference, with
\* libc among the requested crates and --libc given as well, and the
\* references are in the order of the dependency names.
C18_ExternUniqueSorted ==
    compiled.outcome = "invoked" =>
        LET argv == compiled.argv
            at == {i \in 1..(Len(argv) - 1) : argv[i] = <<"--extern">>}
        IN \A i, j \in at : i < j =>
              /\ argv[i + 1][1] # argv[j + 1][1]
              /\ Rank(argv[i + 1][1]) <= Rank(argv[j + 1][1])

----------------------------------------------------------------------------
(* Properties of cargo_build and of main.                                   *)

\* a well-formed structured message
IsMessage(line) ==
    line.ok /\ Len(line.text) >= 2 /\ line.text[1] = "{" /\ line.text[Len(line.text)] = "}"
IsNoMessage(line) == ~IsMessage(line)

TextsOf(ls) == [i \in DOMAIN ls |-> ls[i].text]

\* C15: when cargo_build returns, the structured messages of the build
\* tool's output are the accumulated lines and all its other lines, the
\* malformed ones included, are the lines on the console, each in arrival
\* order, none lost or twice; the accumulated text is returned exactly if the
\* build tool exited successfully.
C15_TolerantStream ==
    pc = "cargo_returned" =>
        /\ Lines(cb_out) = TextsOf(SelectSeq(cb_input, IsMessage))
        /\ cb_console = TextsOf(SelectSeq(cb_input, IsNoMessage))
        /\ cb_ret = IF cb_success THEN Some(cb_out) ELSE None

\* C19: the program is run only after a successful compilation in the same
\* invocation, or with --run without a compilation when the executable
\* existed; nothing follows a failed compilation; with --run and
\* --compile-only together nothing is compiled, run or copied; with
\* --compile-only the program is copied after the compilation and never run.
C19_CompileRunOrder ==
    LET ev == main_events
        Has(e) == \E i \in DOMAIN ev : ev[i] = e
    IN /\ \A i \in DOMAIN ev : ev[i] = "run" =>
            \/ i > 1 /\ ev[i - 1] = "compiled" /\ ~margs.run
            \/ margs.run /\ program_exists /\ ~Has("compiled") /\ ~Has("compile failed")
       /\ \A i \in DOMAIN ev : ev[i] = "compile failed" => i = Len(ev)
       /\ (margs.run /\ margs.compile_only) =>
            ~Has("run") /\ ~Has("copy") /\ ~Has("compiled") /\ ~Has("compile failed")
       /\ margs.compile_only =>
            /\ ~Has("run")
            /\ \A i \in DOMAIN ev : ev[i] = "copy" => i > 1 /\ ev[i - 1] = "compiled"
       /\ (pc = "main_done" /\ ~margs.compile_only /\ Has("compiled")) => Has("run")

\* C19 witness: the compilation failed and main returned without a run
C19_Witness ==
    /\ pc = "main_done"
    /\ ~margs.run /\ ~margs.compile_only
    /\ compiled.outcome = "invoked"
    /\ main_events = <<"compile failed">>

====
